---- MODULE Spec2Model ----
(***************************************************************************)
(* Model of scripts/generate_build_matrix.py: discovery of Slot<N>_<MODULE> *)
(* snippet directories, the cartesian product of the modules per slot, and *)
(* the rendering of the product as build.yaml lines.                       *)
(*                                                                         *)
(* A Python str is a sequence of one-character strings; a dict is a        *)
(* sequence of [key, value] records in insertion order; a list or tuple is *)
(* a sequence.                                                             *)
(***************************************************************************)
EXTENDS Integers, Sequences, FiniteSets, TLC

\* Bounds of the model.
MaxEntries == 4      \* children of the snippets directory
MaxLimit == 2        \* largest --limit value tried

\* None, for an optional value held as a sequence of at most one element.
None == <<>>

-----------------------------------------------------------------------------
(* String literals of the source. *)

\* "zmk-usb-logging"
DEFAULT_BASE_SNIPPET_1 == <<"z", "m", "k", "-", "u", "s", "b", "-", "l", "o", "g", "g", "i", "n", "g">>
\* "studio-rpc-usb-uart"
DEFAULT_BASE_SNIPPET_2 == <<"s", "t", "u", "d", "i", "o", "-", "r", "p", "c", "-", "u", "s", "b", "-", "u", "a", "r", "t">>
DEFAULT_BASE_SNIPPETS == <<DEFAULT_BASE_SNIPPET_1, DEFAULT_BASE_SNIPPET_2>>
\* "seeeduino_xiao_ble"
DEFAULT_BOARD == <<"s", "e", "e", "e", "d", "u", "i", "n", "o", "_", "x", "i", "a", "o", "_", "b", "l", "e">>
\* "MDK rgbled_adapter nice_oled"
DEFAULT_SHIELD == <<"M", "D", "K", " ", "r", "g", "b", "l", "e", "d", "_", "a", "d", "a", "p", "t", "e", "r", " ", "n", "i", "c", "e", "_", "o", "l", "e", "d">>
\* "MDK"
DEFAULT_ARTIFACT_PREFIX == <<"M", "D", "K">>
\* "Slot"
SlotToken == <<"S", "l", "o", "t">>
\* "---"
YamlStart == <<"-", "-", "-">>
\* "include:"
YamlInclude == <<"i", "n", "c", "l", "u", "d", "e", ":">>
\* "  - board: "
BoardKey == <<" ", " ", "-", " ", "b", "o", "a", "r", "d", ":", " ">>
\* "    shield: "
ShieldKey == <<" ", " ", " ", " ", "s", "h", "i", "e", "l", "d", ":", " ">>
\* "    snippet: "
SnippetKey == <<" ", " ", " ", " ", "s", "n", "i", "p", "p", "e", "t", ":", " ">>
\* "    artifact-name: "
ArtifactKey == <<" ", " ", " ", " ", "a", "r", "t", "i", "f", "a", "c", "t", "-", "n", "a", "m", "e", ":", " ">>
\* "    shield: settings_reset"
ResetShieldLine == <<" ", " ", " ", " ", "s", "h", "i", "e", "l", "d", ":", " ", "s", "e", "t", "t", "i", "n", "g", "s", "_", "r", "e", "s", "e", "t">>
\* "Snippets directory not found: "
NotFoundMsg == <<"S", "n", "i", "p", "p", "e", "t", "s", " ", "d", "i", "r", "e", "c", "t", "o", "r", "y", " ", "n", "o", "t", " ", "f", "o", "u", "n", "d", ":", " ">>
\* "No slot snippets found under "
NoSlotsMsg == <<"N", "o", " ", "s", "l", "o", "t", " ", "s", "n", "i", "p", "p", "e", "t", "s", " ", "f", "o", "u", "n", "d", " ", "u", "n", "d", "e", "r", " ">>
\* "Discovered slot snippets:"
DryHeader == <<"D", "i", "s", "c", "o", "v", "e", "r", "e", "d", " ", "s", "l", "o", "t", " ", "s", "n", "i", "p", "p", "e", "t", "s", ":">>
\* "  Slot"
DrySlotPrefix == <<" ", " ", "S", "l", "o", "t">>
\* " modules -> "
DryModulesArrow == <<" ", "m", "o", "d", "u", "l", "e", "s", " ", "-", ">", " ">>
\* "Total combinations: "
DryTotalPrefix == <<"T", "o", "t", "a", "l", " ", "c", "o", "m", "b", "i", "n", "a", "t", "i", "o", "n", "s", ":", " ">>
\* The traceback of the NotADirectoryError that Path.iterdir() raises on a
\* path that exists but is not a directory; only its last word is kept.
NotADirectoryTrace == <<"N", "o", "t", "A", "D", "i", "r", "e", "c", "t", "o", "r", "y", "E", "r", "r", "o", "r">>

-----------------------------------------------------------------------------
(* Inputs: the command line and the file system. *)

\* --snippets-dir: "snippets"
SnippetsPath == <<"s", "n", "i", "p", "p", "e", "t", "s">>
\* Non-default values of --board, --shield, --artifact-prefix, --base-snippet.
CustomBoard == <<"n", "r", "f">>
CustomShield == <<"k", "b">>
CustomPrefix == <<"f", "w">>
CustomBase == <<"d", "b", "g">>

Dir(name) == [name |-> name, is_dir |-> TRUE]
File(name) == [name |-> name, is_dir |-> FALSE]

\* The children the snippets directory may hold.
EntryPool ==
  { Dir(<<"S", "l", "o", "t", "0", "_", "A", "l", "p", "h", "a">>),            \* Slot0_Alpha
    Dir(<<"S", "l", "o", "t", "0", "_", "B", "e", "t", "a">>),                 \* Slot0_Beta
    Dir(<<"S", "l", "o", "t", "0", "_", "A", "l", "p", "h", "a", "_", "X">>),  \* Slot0_Alpha_X
    Dir(<<"S", "l", "o", "t", "1", "_", "X">>),                                \* Slot1_X
    Dir(<<"S", "l", "o", "t", "1", "_", "X", "_", "X">>),                      \* Slot1_X_X
    Dir(<<"S", "l", "o", "t", "0", "1", "_", "X">>),                           \* Slot01_X
    Dir(<<"S", "l", "o", "t", "2", "_">>),                                     \* Slot2_ (no module)
    File(<<"S", "l", "o", "t", "1", "_", "B">>) }                              \* Slot1_B, a plain file

\* The orders in which iterdir() may list a set of children.
ListingOrders(entries) ==
  { l \in [1..Cardinality(entries) -> entries] :
      \A i, j \in 1..Cardinality(entries) : i # j => l[i] # l[j] }

-----------------------------------------------------------------------------
(* Python built-ins. *)

\* Code points of the characters that occur in compared strings.
ord ==
  "\n" :> 10 @@ "0" :> 48 @@ "1" :> 49 @@ "2" :> 50 @@ "A" :> 65 @@ "B" :> 66 @@
  "S" :> 83 @@ "X" :> 88 @@ "_" :> 95 @@ "a" :> 97 @@ "e" :> 101 @@ "h" :> 104 @@
  "l" :> 108 @@ "o" :> 111 @@ "p" :> 112 @@ "t" :> 116

\* a < b on str: lexicographic by code point, a proper prefix sorts first.
RECURSIVE StrLessFrom(_, _, _)
StrLessFrom(a, b, k) ==
  IF k > Len(b) THEN FALSE
  ELSE IF k > Len(a) THEN TRUE
  ELSE IF a[k] = b[k] THEN StrLessFrom(a, b, k + 1)
  ELSE ord[a[k]] < ord[b[k]]

StrLess(a, b) == StrLessFrom(a, b, 1)

\* sorted(...) and list.sort(...): a stable sort. less[i][j] tells whether
\* the key of s[i] is below the key of s[j]; rank[i] is the place of s[i]
\* in the result: after the elements with a smaller key and the earlier
\* elements with an equal key.
stable_sort(s, less) ==
  LET before(j, i) == IF j < i THEN ~less[i][j] ELSE less[j][i]
      rank == [i \in 1..Len(s) |->
                Cardinality({ j \in 1..Len(s) : before(j, i) }) + 1] \o <<>>
  IN [p \in 1..Len(s) |-> s[CHOOSE i \in 1..Len(s) : rank[i] = p]]

\* sorted(snippets_dir.iterdir()): paths of one directory compare by name.
sorted_paths(listing) ==
  stable_sort(listing, [i \in 1..Len(listing) |-> [j \in 1..Len(listing) |->
                          StrLess(listing[i].name, listing[j].name)]])

\* snippets.sort(key=lambda snippet: snippet.module)
sort_by_module(snippets) ==
  stable_sort(snippets, [i \in 1..Len(snippets) |-> [j \in 1..Len(snippets) |->
                           StrLess(snippets[i].module, snippets[j].module)]])

\* sorted(slots.items()): the keys of a dict differ, so they decide.
sorted_items(d) ==
  stable_sort(d, [i \in 1..Len(d) |-> [j \in 1..Len(d) |-> d[i].key < d[j].key]])

\* sorted(slots): the keys in ascending order.
sorted_keys(d) ==
  LET keys == [i \in 1..Len(d) |-> d[i].key]
  IN stable_sort(keys, [i \in 1..Len(d) |-> [j \in 1..Len(d) |-> keys[i] < keys[j]]])

DigitChars == <<"0", "1", "2", "3", "4", "5", "6", "7", "8", "9">>

IsDigit(c) == \E d \in 1..Len(DigitChars) : DigitChars[d] = c

DigitValue(c) == (CHOOSE d \in 1..Len(DigitChars) : DigitChars[d] = c) - 1

\* int(text) of a run of decimal digits.
RECURSIVE int(_)
int(digits) ==
  IF digits = <<>> THEN 0
  ELSE int(SubSeq(digits, 1, Len(digits) - 1)) * 10 + DigitValue(digits[Len(digits)])

\* format(n) of a non-negative int, as in f"{n}".
RECURSIVE format_int(_)
format_int(n) ==
  IF n < 10 THEN <<DigitChars[n + 1]>>
  ELSE format_int(n \div 10) \o <<DigitChars[(n % 10) + 1]>>

\* sep.join(parts)
RECURSIVE join(_, _)
join(sep, parts) ==
  IF parts = <<>> THEN <<>>
  ELSE IF Len(parts) = 1 THEN parts[1]
  ELSE parts[1] \o sep \o join(sep, Tail(parts))

-----------------------------------------------------------------------------
(* SlotSnippet *)

SlotSnippet(slot, module) == [slot |-> slot, module |-> module]

snippet_name(self) == SlotToken \o format_int(self.slot) \o <<"_">> \o self.module

-----------------------------------------------------------------------------
(* discover_slot_snippets *)

\* The ends i of the digit run in the ways r"Slot(\d+)_(.+)" matches the whole
\* of name: "Slot", digits up to i, "_", then one or more characters other
\* than a newline up to the end.
MatchEnds(name) ==
  { i \in 5..(Len(name) - 2) :
      /\ SubSeq(name, 1, 4) = SlotToken
      /\ \A k \in 5..i : IsDigit(name[k])
      /\ name[i + 1] = "_"
      /\ \A k \in (i + 2)..Len(name) : name[k] # "\n" }

\* pattern.fullmatch(name): None, or the groups <<group(1), group(2)>>; \d+ is
\* greedy, so group 1 is the longest run.
fullmatch(name) ==
  IF MatchEnds(name) = {} THEN None
  ELSE LET i == CHOOSE e \in MatchEnds(name) : \A o \in MatchEnds(name) : o <= e
       IN <<SubSeq(name, 5, i), SubSeq(name, i + 2, Len(name))>>

\* d.setdefault(key, []).append(item)
setdefault_append(d, key, item) ==
  IF \E i \in 1..Len(d) : d[i].key = key
    THEN [i \in 1..Len(d) |->
            IF d[i].key = key THEN [d[i] EXCEPT !.value = Append(@, item)] ELSE d[i]]
    ELSE Append(d, [key |-> key, value |-> <<item>>])

\* d[key]
getitem(d, key) == d[CHOOSE i \in 1..Len(d) : d[i].key = key].value

\* scan_entries without its is_dir() test.
RECURSIVE scan_entries_any_kind(_, _)
scan_entries_any_kind(entries, slots) ==
  IF entries = <<>> THEN slots
  ELSE LET match == fullmatch(Head(entries).name)
       IN IF match = None
            THEN scan_entries_any_kind(Tail(entries), slots)
            ELSE scan_entries_any_kind(Tail(entries),
                   setdefault_append(slots, int(match[1]),
                     SlotSnippet(int(match[1]), match[2])))

\* The loop over the sorted children: directories whose name matches are
\* appended to the list of their slot.
RECURSIVE scan_entries(_, _)
scan_entries(entries, slots) ==
  IF entries = <<>> THEN slots
  ELSE LET entry == Head(entries)
           match == fullmatch(entry.name)
       IN IF ~entry.is_dir \/ match = None
            THEN scan_entries(Tail(entries), slots)
            ELSE scan_entries(Tail(entries),
                   setdefault_append(slots, int(match[1]),
                     SlotSnippet(int(match[1]), match[2])))

\* discover_slot_snippets without any of its three sorts.
discover_unsorted(listing) == scan_entries(listing, <<>>)

\* The slot map the function returns when it does not exit.
discover_slot_snippets(listing) ==
  LET scanned == scan_entries(sorted_paths(listing), <<>>)
      by_module == [i \in 1..Len(scanned) |->
                     [scanned[i] EXCEPT !.value = sort_by_module(@)]]
  IN sorted_items(by_module)

-----------------------------------------------------------------------------
(* iter_combinations *)

\* A product in which the first list varies fastest.
RECURSIVE product_first_fastest(_)
product_first_fastest(lists) ==
  IF lists = <<>> THEN << <<>> >>
  ELSE LET rest == product_first_fastest(Tail(lists))
           first == Head(lists)
       IN [k \in 1..(Len(first) * Len(rest)) |->
             <<first[((k - 1) % Len(first)) + 1]>> \o rest[((k - 1) \div Len(first)) + 1]]

\* list(itertools.product(*lists)): the last list varies fastest; the product
\* of no lists is one empty tuple.
RECURSIVE product(_)
product(lists) ==
  IF lists = <<>> THEN << <<>> >>
  ELSE LET rest == product(Tail(lists))
           first == Head(lists)
       IN [k \in 1..(Len(first) * Len(rest)) |->
             <<first[((k - 1) \div Len(rest)) + 1]>> \o rest[((k - 1) % Len(rest)) + 1]]

\* [slots[index] for index in sorted(slots)]
ordered_slots(slots) ==
  [i \in 1..Len(slots) |-> getitem(slots, sorted_keys(slots)[i])]

\* iter_combinations with zip(*ordered_slots) for the product.
iter_combinations_zip(slots) ==
  LET lists == ordered_slots(slots)
      shortest == CHOOSE n \in 0..MaxEntries + 1 :
                    /\ \A i \in 1..Len(lists) : n <= Len(lists[i])
                    /\ \E i \in 1..Len(lists) : n = Len(lists[i])
  IN IF lists = <<>>
       THEN [kind |-> "tuple", items |-> <<>>, pos |-> 0]
       ELSE [kind |-> "product", pos |-> 0,
             items |-> [k \in 1..shortest |-> [i \in 1..Len(lists) |-> lists[i][k]]]]

\* The returned object: the empty tuple (), or an itertools.product iterator,
\* held as the combinations it yields and the number already fetched.
iter_combinations(slots) ==
  IF ordered_slots(slots) = <<>>
    THEN [kind |-> "tuple", items |-> <<>>, pos |-> 0]
    ELSE [kind |-> "product", items |-> product(ordered_slots(slots)), pos |-> 0]

\* An iter(obj) that starts every iteration at the first combination.
iter_from_start(obj) == [obj EXCEPT !.pos = 0]

\* iter(obj), as a for statement calls it: an itertools.product object is its
\* own iterator and goes on from where it is, a tuple gives a new iterator
\* at its start.
iter(obj) == IF obj.kind = "product" THEN obj ELSE [obj EXCEPT !.pos = 0]

\* next(it): StopIteration when nothing is left, else the next combination,
\* which the iterator then has behind it.
exhausted(it) == it.pos >= Len(it.items)

next_value(it) == it.items[it.pos + 1]

advance(it) == [it EXCEPT !.pos = @ + 1]

-----------------------------------------------------------------------------
(* build_yaml_lines *)

\* The limit test with > for >=.
limit_reached_late(limit, emitted) == limit # None /\ emitted > limit[1]

\* limit is not None and emitted >= limit
limit_reached(limit, emitted) == limit # None /\ emitted >= limit[1]

\* record_lines with the slot snippets put before the base snippets and the
\* artifact name joined from the snippet names.
record_lines_swapped(combo, base_snippets, board, shield, artifact_prefix) ==
  LET slot_snippet_names == [i \in 1..Len(combo) |-> snippet_name(combo[i])]
  IN << BoardKey \o board,
        ShieldKey \o shield,
        SnippetKey \o join(<<" ">>, slot_snippet_names \o base_snippets),
        ArtifactKey \o artifact_prefix \o <<"_">> \o join(<<"_">>, slot_snippet_names),
        <<>> >>

\* The five lines appended for one combination.
record_lines(combo, base_snippets, board, shield, artifact_prefix) ==
  LET slot_snippet_names == [i \in 1..Len(combo) |-> snippet_name(combo[i])]
      module_labels == [i \in 1..Len(combo) |-> combo[i].module]
      snippet_field == join(<<" ">>, base_snippets \o slot_snippet_names)
      artifact == artifact_prefix \o <<"_">> \o join(<<"_">>, module_labels)
  IN << BoardKey \o board,
        ShieldKey \o shield,
        SnippetKey \o snippet_field,
        ArtifactKey \o artifact,
        <<>> >>

\* The for loop: it is the iterator, fetched from until it is exhausted or
\* the limit is reached; the combination fetched when the limit is found
\* reached is dropped.
RECURSIVE build_loop(_, _, _, _, _, _, _, _)
build_loop(it, lines, emitted, base_snippets, board, shield, artifact_prefix, limit) ==
  IF exhausted(it)
    THEN [lines |-> lines, emitted |-> emitted, it |-> it]
    ELSE LET combo == next_value(it)
             fetched == advance(it)
         IN IF limit_reached(limit, emitted)
              THEN [lines |-> lines, emitted |-> emitted, it |-> fetched]
              ELSE build_loop(fetched,
                     lines \o record_lines(combo, base_snippets, board, shield, artifact_prefix),
                     emitted + 1, base_snippets, board, shield, artifact_prefix, limit)

\* The returned (lines, emitted), and the state the argument is left in.
build_yaml_lines(combinations_, base_snippets, board, shield, artifact_prefix, limit) ==
  LET r == build_loop(iter(combinations_), <<YamlStart, YamlInclude>>, 0,
                      base_snippets, board, shield, artifact_prefix, limit)
  IN [lines |-> r.lines, emitted |-> r.emitted,
      combinations |-> IF combinations_.kind = "product" THEN r.it ELSE combinations_]

\* An append_settings_reset that puts the record right after the header.
append_settings_reset_first(lines, board) ==
  SubSeq(lines, 1, 2) \o << BoardKey \o board, ResetShieldLine, <<>> >>
  \o SubSeq(lines, 3, Len(lines))

\* append_settings_reset(lines, board)
append_settings_reset(lines, board) ==
  lines \o << BoardKey \o board, ResetShieldLine, <<>> >>

-----------------------------------------------------------------------------
(* main *)

\* combo_counts, and the lines the dry run prints to stderr.
RECURSIVE total_of(_)
total_of(counts) == IF counts = <<>> THEN 1 ELSE Head(counts) * total_of(Tail(counts))

dry_run_lines(slots) ==
  LET combo_counts == [i \in 1..Len(slots) |-> Len(slots[i].value)]
      names(i) == join(<<",", " ">>, [k \in 1..Len(slots[i].value) |-> slots[i].value[k].module])
  IN <<DryHeader>>
     \o [i \in 1..Len(slots) |->
           DrySlotPrefix \o format_int(slots[i].key) \o <<":", " ">>
           \o format_int(combo_counts[i]) \o DryModulesArrow \o names(i)]
     \o <<DryTotalPrefix \o format_int(total_of(combo_counts))>>

\* The lines after the trailing blank line is removed.
pop_trailing_blank(lines) ==
  IF lines # <<>> /\ lines[Len(lines)] = <<>> THEN SubSeq(lines, 1, Len(lines) - 1) ELSE lines

VARIABLES
  pc,             \* the position of main
  fs,             \* the snippets path: whether it exists, its kind, its children
  args,           \* the parsed command line
  base_snippets,  \* main's base_snippets
  slots,          \* main's slots
  combinations,   \* main's combinations
  lines,          \* main's lines
  emitted,        \* main's emitted
  stdout,         \* the text written to sys.stdout
  stderr,         \* the lines written to sys.stderr
  exit_status,    \* "running", "zero" or "nonzero"
  yielded         \* the combinations each iteration of combinations has fetched

vars == <<pc, fs, args, base_snippets, slots, combinations, lines, emitted,
          stdout, stderr, exit_status, yielded>>

NoCombinations == [kind |-> "tuple", items |-> <<>>, pos |-> 0]

\* The sets of children of at most MaxEntries entries.
EntrySets == { e \in SUBSET EntryPool : Cardinality(e) <= MaxEntries }

FileSystems ==
  { [kind |-> "missing", entries |-> {}], [kind |-> "file", entries |-> {}] }
  \cup { [kind |-> "dir", entries |-> e] : e \in EntrySets }

Limits == { None } \cup { <<n>> : n \in 0..MaxLimit }

\* The command lines: every choice of --skip-settings-reset, --limit and
\* --dry-run with the string options at their defaults, and the string
\* options all set, with and without --dry-run.
ArgSets ==
  { [snippets_dir |-> SnippetsPath, board |-> DEFAULT_BOARD, shield |-> DEFAULT_SHIELD,
     artifact_prefix |-> DEFAULT_ARTIFACT_PREFIX, base_snippets |-> None,
     skip_settings_reset |-> skip, limit |-> limit, dry_run |-> dry]
    : skip \in BOOLEAN, limit \in Limits, dry \in BOOLEAN }
  \cup
  { [snippets_dir |-> SnippetsPath, board |-> CustomBoard, shield |-> CustomShield,
     artifact_prefix |-> CustomPrefix, base_snippets |-> <<CustomBase>>,
     skip_settings_reset |-> FALSE, limit |-> None, dry_run |-> dry]
    : dry \in BOOLEAN }

Init ==
  /\ pc = "start"
  /\ fs \in FileSystems
  /\ args \in ArgSets
  /\ base_snippets = <<>>
  /\ slots = <<>>
  /\ combinations = NoCombinations
  /\ lines = <<>>
  /\ emitted = 0
  /\ stdout = <<>>
  /\ stderr = <<>>
  /\ exit_status = "running"
  /\ yielded = <<>>

\* args = parse_args(); base_snippets = args.base_snippets or list(DEFAULT_BASE_SNIPPETS)
ParseArgs ==
  /\ pc = "start"
  /\ base_snippets' = IF args.base_snippets # <<>> THEN args.base_snippets
                      ELSE DEFAULT_BASE_SNIPPETS
  /\ pc' = "parsed"
  /\ UNCHANGED <<fs, args, slots, combinations, lines, emitted, stdout, stderr,
                 exit_status, yielded>>

\* raise SystemExit(message), and an exception nothing catches: the message
\* goes to stderr and the exit status is 1.
Exit(message) ==
  /\ stderr' = Append(stderr, message)
  /\ exit_status' = "nonzero"
  /\ pc' = "exited"
  /\ UNCHANGED <<fs, args, base_snippets, slots, combinations, lines, emitted,
                 stdout, yielded>>

\* slots = discover_slot_snippets(args.snippets_dir)
Discover ==
  /\ pc = "parsed"
  /\ IF fs.kind = "missing"
       THEN Exit(NotFoundMsg \o args.snippets_dir)
     ELSE IF fs.kind = "file"
       THEN Exit(NotADirectoryTrace)
     ELSE \E listing \in ListingOrders(fs.entries) :
            LET found == discover_slot_snippets(listing)
            IN IF found = <<>>
              THEN Exit(NoSlotsMsg \o args.snippets_dir)
              ELSE /\ slots' = found
                   /\ pc' = "discovered"
                   /\ UNCHANGED <<fs, args, base_snippets, combinations, lines,
                                  emitted, stdout, stderr, exit_status, yielded>>

\* combinations = iter_combinations(slots)
IterCombinations ==
  /\ pc = "discovered"
  /\ combinations' = iter_combinations(slots)
  /\ pc' = "combined"
  /\ UNCHANGED <<fs, args, base_snippets, slots, lines, emitted, stdout, stderr,
                 exit_status, yielded>>

\* if args.dry_run: print the summary to stderr and return
DryRun ==
  /\ pc = "combined"
  /\ args.dry_run
  /\ stderr' = stderr \o dry_run_lines(slots)
  /\ exit_status' = "zero"
  /\ pc' = "exited"
  /\ UNCHANGED <<fs, args, base_snippets, slots, combinations, lines, emitted,
                 stdout, yielded>>

\* lines, emitted = build_yaml_lines(...)
BuildYamlLines ==
  /\ pc = "combined"
  /\ ~args.dry_run
  /\ LET r == build_yaml_lines(combinations, base_snippets, args.board, args.shield,
                               args.artifact_prefix, args.limit)
     IN /\ lines' = r.lines
        /\ emitted' = r.emitted
        /\ combinations' = r.combinations
  /\ pc' = "built"
  /\ UNCHANGED <<fs, args, base_snippets, slots, stdout, stderr, exit_status, yielded>>

\* if not args.skip_settings_reset: append_settings_reset(lines, args.board)
AppendSettingsReset ==
  /\ pc = "built"
  /\ ~args.skip_settings_reset
  /\ lines' = append_settings_reset(lines, args.board)
  /\ pc' = "reset_appended"
  /\ UNCHANGED <<fs, args, base_snippets, slots, combinations, emitted, stdout,
                 stderr, exit_status, yielded>>

\* The trailing blank line is removed and print("\n".join(lines)) ends main.
PrintLines ==
  /\ \/ pc = "reset_appended"
     \/ pc = "built" /\ args.skip_settings_reset
  /\ lines' = pop_trailing_blank(lines)
  /\ stdout' = stdout \o join(<<"\n">>, lines') \o <<"\n">>
  /\ exit_status' = "zero"
  /\ pc' = "exited"
  /\ UNCHANGED <<fs, args, base_snippets, slots, combinations, emitted, stderr, yielded>>

-----------------------------------------------------------------------------
(* The object iter_combinations returns, iterated twice by for statements. *)

DefaultArgs ==
  [snippets_dir |-> SnippetsPath, board |-> DEFAULT_BOARD, shield |-> DEFAULT_SHIELD,
   artifact_prefix |-> DEFAULT_ARTIFACT_PREFIX, base_snippets |-> None,
   skip_settings_reset |-> FALSE, limit |-> None, dry_run |-> FALSE]

\* The slot maps iter_combinations is given: those discovery builds from the
\* children of a directory, the empty map included.
InitIter ==
  /\ pc = "iter_start"
  /\ fs \in { f \in FileSystems : f.kind = "dir" }
  /\ args = DefaultArgs
  /\ base_snippets = DEFAULT_BASE_SNIPPETS
  /\ \E listing \in ListingOrders(fs.entries) : slots = discover_slot_snippets(listing)
  /\ combinations = NoCombinations
  /\ lines = <<>>
  /\ emitted = 0
  /\ stdout = <<>>
  /\ stderr = <<>>
  /\ exit_status = "running"
  /\ yielded = <<>>

\* combinations = iter_combinations(slots)
IterCall ==
  /\ pc = "iter_start"
  /\ combinations' = iter_combinations(slots)
  /\ pc' = "iter_ready"
  /\ UNCHANGED <<fs, args, base_snippets, slots, lines, emitted, stdout, stderr,
                 exit_status, yielded>>

\* for combo in combinations: the statement calls iter(combinations); the
\* iterator of the empty tuple has no state of its own to keep.
ForBegin ==
  /\ pc = "iter_ready"
  /\ Len(yielded) < 2
  /\ combinations' = iter(combinations)
  /\ yielded' = Append(yielded, <<>>)
  /\ pc' = "iterating"
  /\ UNCHANGED <<fs, args, base_snippets, slots, lines, emitted, stdout, stderr,
                 exit_status>>

\* The statement fetches the next combination.
ForFetch ==
  /\ pc = "iterating"
  /\ ~exhausted(combinations)
  /\ yielded' = [yielded EXCEPT ![Len(yielded)] = Append(@, next_value(combinations))]
  /\ combinations' = advance(combinations)
  /\ UNCHANGED <<pc, fs, args, base_snippets, slots, lines, emitted, stdout, stderr,
                 exit_status>>

\* The statement ends: the iterator is exhausted, or the body of the first
\* loop breaks as build_yaml_lines does on its limit.
ForEnd ==
  /\ pc = "iterating"
  /\ exhausted(combinations) \/ Len(yielded) = 1
  /\ pc' = IF Len(yielded) = 2 THEN "iter_done" ELSE "iter_ready"
  /\ UNCHANGED <<fs, args, base_snippets, slots, combinations, lines, emitted,
                 stdout, stderr, exit_status, yielded>>

NextIter ==
  \/ IterCall
  \/ ForBegin
  \/ ForFetch
  \/ ForEnd

SpecIter == InitIter /\ [][NextIter]_vars

-----------------------------------------------------------------------------
Next ==
  \/ ParseArgs
  \/ Discover
  \/ IterCombinations
  \/ DryRun
  \/ BuildYamlLines
  \/ AppendSettingsReset
  \/ PrintLines

Spec == Init /\ [][Next]_vars

-----------------------------------------------------------------------------
(* What the properties speak of: the directories on disk that are slot      *)
(* snippets, and the records read back from the text written to stdout.     *)

\* The children that are directories named Slot<digits>_<module>.
Matched == { e \in fs.entries : e.is_dir /\ fullmatch(e.name) # None }

SlotIndexOf(e) == int(fullmatch(e.name)[1])

ModuleOf(e) == fullmatch(e.name)[2]

DiscoveredSlots == { SlotIndexOf(e) : e \in Matched }

MatchCount(k) == Cardinality({ e \in Matched : SlotIndexOf(e) = k })

RECURSIVE ProductOfCounts(_)
ProductOfCounts(ks) ==
  IF ks = {} THEN 1
  ELSE LET k == CHOOSE x \in ks : TRUE
       IN MatchCount(k) * ProductOfCounts(ks \ {k})

\* The p-th discovered slot index in ascending numeric order.
SlotAt(p) == CHOOSE k \in DiscoveredSlots :
               Cardinality({ j \in DiscoveredSlots : j < k }) = p - 1

Modules(combo) == [p \in 1..Len(combo) |-> combo[p].module]

\* The pieces of s between the elements equal to sep.
RECURSIVE SplitAt(_, _, _)
SplitAt(s, cuts, start) ==
  IF cuts = {} THEN <<SubSeq(s, start, Len(s))>>
  ELSE LET c == CHOOSE x \in cuts : \A y \in cuts : x <= y
       IN <<SubSeq(s, start, c - 1)>> \o SplitAt(s, cuts \ {c}, c + 1)

Split(s, sep) == SplitAt(s, { i \in 1..Len(s) : s[i] = sep }, 1)

\* The lines of the text on stdout, which print ends with a newline.
OutLines ==
  LET pieces == Split(stdout, "\n")
  IN SubSeq(pieces, 1, Len(pieces) - 1)

\* The records of the output: the groups of lines under "include:", one
\* blank line apart.
OutRecords ==
  LET body == SubSeq(OutLines, 3, Len(OutLines))
  IN IF body = <<>> THEN <<>> ELSE Split(body, <<>>)

HasKey(line, key) == Len(line) >= Len(key) /\ SubSeq(line, 1, Len(key)) = key

IsProductRecord(r) ==
  /\ Len(r) = 4
  /\ HasKey(r[1], BoardKey)
  /\ HasKey(r[2], ShieldKey)
  /\ HasKey(r[3], SnippetKey)
  /\ HasKey(r[4], ArtifactKey)

\* board from the parameters, shield settings_reset, and no other field.
IsSentinel(r) == r = << BoardKey \o args.board, ResetShieldLine >>

\* A run without --dry-run that wrote its output and returned.
Emitted == pc = "exited" /\ exit_status = "zero" /\ ~args.dry_run

Total == Len(combinations.items)

Smaller(a, b) == IF a < b THEN a ELSE b

-----------------------------------------------------------------------------
\* C1: whenever discovery returns, iter_combinations yields as many
\* combinations as the product, over the discovered slot indices, of the
\* number of entries stored for the slot, which is the number of matching
\* directories of that slot.
C1_CombinationCount ==
  pc = "combined" =>
    /\ { slots[i].key : i \in 1..Len(slots) } = DiscoveredSlots
    /\ \A k \in DiscoveredSlots : Len(getitem(slots, k)) = MatchCount(k)
    /\ Total = ProductOfCounts(DiscoveredSlots)

\* Two slots of two modules each give four combinations.
C1_Witness ==
  /\ pc = "combined"
  /\ Cardinality(DiscoveredSlots) = 2
  /\ \A k \in DiscoveredSlots : MatchCount(k) = 2
  /\ Total = 4

\* c comes before d in the lexicographic order of the module names, compared
\* by code point from the lowest slot on.
ComboBefore(c, d) ==
  \E p \in 1..Len(c) :
    /\ \A q \in 1..(p - 1) : c[q].module = d[q].module
    /\ StrLess(c[p].module, d[p].module)

Alpha == <<"A", "l", "p", "h", "a">>
Beta == <<"B", "e", "t", "a">>

\* C2: every combination holds one entry per discovered slot, in ascending
\* numeric slot index, each the slot and module of a matching directory;
\* every choice of one matching directory per slot is among them; and they
\* come in lexicographic order of the module names, the last slot varying
\* fastest. Slot0_Alpha, Slot0_Beta and Slot1_X give (Alpha, X), (Beta, X).
C2_LexicographicOrder ==
  pc = "combined" =>
    LET items == combinations.items
        n == Cardinality(DiscoveredSlots)
    IN /\ \A i \in 1..Len(items) :
            /\ Len(items[i]) = n
            /\ \A p \in 1..n :
                 /\ items[i][p].slot = SlotAt(p)
                 /\ \E e \in Matched : /\ SlotIndexOf(e) = items[i][p].slot
                                       /\ ModuleOf(e) = items[i][p].module
       /\ \A choice \in [1..n -> Matched] :
            (\A p \in 1..n : SlotIndexOf(choice[p]) = SlotAt(p))
              => \E i \in 1..Len(items) :
                   \A p \in 1..n : items[i][p].module = ModuleOf(choice[p])
       /\ \A i, j \in 1..Len(items) : i < j => ~ComboBefore(items[j], items[i])
       /\ { e.name : e \in Matched } = { SlotToken \o <<"0", "_">> \o Alpha,
                                         SlotToken \o <<"0", "_">> \o Beta,
                                         SlotToken \o <<"1", "_", "X">> }
            => [i \in 1..Len(items) |-> Modules(items[i])]
                 = << <<Alpha, <<"X">> >>, <<Beta, <<"X">> >> >>

\* Four combinations over two slots, the second strictly before the third.
C2_Witness ==
  /\ pc = "combined"
  /\ Total = 4
  /\ Len(combinations.items[1]) = 2
  /\ ComboBefore(combinations.items[2], combinations.items[3])

\* C3: build_yaml_lines emits min(limit, T) product records, all T without a
\* limit; they are the records of the first combinations in order; the
\* count it returns is their number; and the settings_reset record, when
\* enabled, is one more record that the limit does not count.
C3_LimitBoundsRecords ==
  Emitted =>
    LET expected == IF args.limit = None THEN Total
                    ELSE Smaller(args.limit[1], Total)
        products == SelectSeq(OutRecords, IsProductRecord)
    IN /\ emitted = expected
       /\ Len(products) = expected
       /\ \A i \in 1..expected :
            products[i] = SubSeq(record_lines(combinations.items[i], base_snippets,
                                   args.board, args.shield, args.artifact_prefix), 1, 4)
       /\ Len(OutRecords) = expected + (IF args.skip_settings_reset THEN 0 ELSE 1)

\* A limit of 1 cuts four combinations short, and the sentinel follows.
C3_Witness ==
  /\ Emitted
  /\ args.limit = <<1>>
  /\ Total = 4
  /\ ~args.skip_settings_reset
  /\ Len(OutRecords) = 2

\* C4: with the settings-reset flag enabled the output holds exactly one
\* sentinel record and it is the last record, after every product record,
\* also when the limit cut emission short or nothing was emitted; with the
\* flag disabled it holds no sentinel and, without a limit, exactly
\* total_combinations records.
C4_SentinelLast ==
  Emitted =>
    LET recs == OutRecords
    IN IF args.skip_settings_reset
         THEN /\ \A i \in 1..Len(recs) : IsProductRecord(recs[i]) /\ ~IsSentinel(recs[i])
              /\ args.limit = None => Len(recs) = Total
         ELSE /\ Len(recs) = emitted + 1
              /\ IsSentinel(recs[Len(recs)])
              /\ \A i \in 1..(Len(recs) - 1) :
                   IsProductRecord(recs[i]) /\ ~IsSentinel(recs[i])

\* A limit below the total cut emission short and the sentinel still came
\* last, after the product records.
C4_Witness ==
  /\ Emitted
  /\ ~args.skip_settings_reset
  /\ args.limit # None
  /\ emitted >= 1
  /\ emitted < Total
  /\ IsSentinel(OutRecords[emitted + 1])

\* C5: a run ends with a non-zero status and nothing on stdout exactly when
\* the snippets directory does not exist or no child directory is named
\* Slot<digits>_<module>; otherwise discovery returns a non-empty slot map
\* in which every slot has an entry, and the run ends with status zero
\* after writing its output.
C5_FatalIffNothingDiscovered ==
  /\ pc = "exited" =>
       /\ exit_status \in {"zero", "nonzero"}
       /\ (exit_status = "nonzero") <=> (fs.kind = "missing" \/ Matched = {})
       /\ exit_status = "nonzero" => stdout = <<>> /\ Len(stderr) = 1
       /\ exit_status = "zero" =>
            IF args.dry_run THEN stdout = <<>> /\ stderr # <<>>
            ELSE stdout # <<>> /\ stderr = <<>>
  /\ pc \in {"discovered", "combined", "built", "reset_appended"}
       \/ (pc = "exited" /\ exit_status = "zero") =>
       /\ slots # <<>>
       /\ \A i \in 1..Len(slots) : slots[i].value # <<>>
  /\ pc # "exited" => exit_status = "running" /\ stdout = <<>>

\* The directory exists and has children, a plain file with a matching name
\* among them, yet none is a matching directory: the run fails.
C5_Witness ==
  /\ pc = "exited"
  /\ exit_status = "nonzero"
  /\ fs.kind = "dir"
  /\ \E e \in fs.entries : ~e.is_dir /\ fullmatch(e.name) # None
  /\ \E e \in fs.entries : e.is_dir

\* Everything the iterations of the returned object have fetched, in order.
RECURSIVE Concat(_)
Concat(seqs) == IF seqs = <<>> THEN <<>> ELSE Head(seqs) \o Concat(Tail(seqs))

\* C6 as stated: a second iteration of the returned sequence starts again at
\* the first combination and yields them all, in order.
C6_Restartable ==
  pc = "iter_done" => yielded[2] = combinations.items

\* C6 as amended: the returned sequence is single-pass. Its iterations
\* together fetch each combination once, in product order; a second
\* iteration goes on after the last combination the first one fetched and
\* run to its end has fetched all the rest, nothing when none is left.
C6_SinglePass ==
  pc \in {"iter_ready", "iterating", "iter_done"} =>
    /\ Concat(yielded) = SubSeq(combinations.items, 1, Len(Concat(yielded)))
    /\ combinations.kind = "product" => combinations.pos = Len(Concat(yielded))
    /\ pc = "iter_done" => yielded[1] \o yielded[2] = combinations.items

\* The first loop broke after one of four combinations and the second
\* fetched the other three.
C6_Witness ==
  /\ pc = "iter_done"
  /\ Total = 4
  /\ Len(yielded[1]) = 1
  /\ Len(yielded[2]) = 3

\* What a run of main writes when iterdir() lists the children as listing.
RunOutput(listing, a) ==
  LET found == discover_slot_snippets(listing)
      base == IF a.base_snippets # <<>> THEN a.base_snippets ELSE DEFAULT_BASE_SNIPPETS
      built == build_yaml_lines(iter_combinations(found), base, a.board, a.shield,
                                a.artifact_prefix, a.limit)
      all == IF a.skip_settings_reset THEN built.lines
             ELSE append_settings_reset(built.lines, a.board)
  IN IF found = <<>>
       THEN [out |-> <<>>, err |-> <<NoSlotsMsg \o a.snippets_dir>>]
     ELSE IF a.dry_run
       THEN [out |-> <<>>, err |-> dry_run_lines(found)]
     ELSE [out |-> join(<<"\n">>, pop_trailing_blank(all)) \o <<"\n">>, err |-> <<>>]

\* C7: what a run writes depends on the set of children and the parameters
\* only: every order in which the children can be listed gives the text
\* this run wrote, also when two matching names parse to one slot index.
C7_ListingOrderIrrelevant ==
  pc = "exited" /\ fs.kind = "dir" =>
    \A listing \in ListingOrders(fs.entries) :
      RunOutput(listing, args) = [out |-> stdout, err |-> stderr]

\* Two directories (Slot1_X and Slot01_X) parse to slot 1 and the same
\* module, beside a directory of slot 0, and records were written.
C7_Witness ==
  /\ Emitted
  /\ \E d, e \in Matched : /\ d # e
                            /\ SlotIndexOf(d) = 1 /\ SlotIndexOf(e) = 1
                            /\ ModuleOf(d) = ModuleOf(e)
  /\ \E e \in Matched : SlotIndexOf(e) = 0
  /\ emitted >= 2

\* head followed by "_" and a part, for each part in order.
RECURSIVE UnderscoreChain(_, _)
UnderscoreChain(head, parts) ==
  IF parts = <<>> THEN head
  ELSE UnderscoreChain(head \o <<"_">> \o Head(parts), Tail(parts))

\* The words with one space between them.
RECURSIVE SpaceList(_)
SpaceList(words) ==
  IF words = <<>> THEN <<>>
  ELSE IF Len(words) = 1 THEN words[1]
  ELSE SpaceList(SubSeq(words, 1, Len(words) - 1)) \o <<" ">> \o words[Len(words)]

\* Slot<slot>_<module>
DisplayName(entry) == <<"S", "l", "o", "t">> \o format_int(entry.slot) \o <<"_">> \o entry.module

\* C8: the i-th record written is that of the i-th combination: board and
\* shield are the parameters unchanged, the snippet list is the base entries
\* in their order and then the display name of each entry in combination
\* order, the artifact name is the prefix and then each module name in
\* combination order, joined by "_". MDK with (Alpha, X) gives MDK_Alpha_X.
C8_RecordContent ==
  Emitted =>
    \A i \in 1..emitted :
      LET combo == combinations.items[i]
          base == IF args.base_snippets = None
                    THEN <<DEFAULT_BASE_SNIPPET_1, DEFAULT_BASE_SNIPPET_2>>
                    ELSE args.base_snippets
          names == [p \in 1..Len(combo) |-> DisplayName(combo[p])]
      IN /\ OutRecords[i] =
              << BoardKey \o args.board,
                 ShieldKey \o args.shield,
                 SnippetKey \o SpaceList(base \o names),
                 ArtifactKey \o UnderscoreChain(args.artifact_prefix, Modules(combo)) >>
         /\ (args.artifact_prefix = <<"M", "D", "K">> /\ Modules(combo) = <<Alpha, <<"X">> >>)
              => OutRecords[i][4] = ArtifactKey
                   \o <<"M", "D", "K", "_", "A", "l", "p", "h", "a", "_", "X">>

\* The record of (Slot0=Alpha, Slot1=X) under the default parameters.
C8_Witness ==
  /\ Emitted
  /\ args.artifact_prefix = DEFAULT_ARTIFACT_PREFIX
  /\ emitted >= 1
  /\ Modules(combinations.items[1]) = <<Alpha, <<"X">> >>
  /\ combinations.items[1][1].slot = 0
  /\ combinations.items[1][2].slot = 1

\* C9: every display name in a record's snippet list is the name of a
\* directory that discovery matched, and no two matched directories are one
\* and the same slot entry.
C9_DisplayNamesAreDirectories ==
  /\ pc = "built" =>
       \A i \in 1..emitted :
         \A p \in 1..Len(combinations.items[i]) :
           snippet_name(combinations.items[i][p]) \in { e.name : e \in Matched }
  /\ pc = "discovered" =>
       \A d, e \in Matched :
         d # e => SlotSnippet(SlotIndexOf(d), ModuleOf(d)) # SlotSnippet(SlotIndexOf(e), ModuleOf(e))

\* The line "artifact-name" of the i-th record built.
ArtifactLine(i) == lines[2 + 5 * (i - 1) + 4]

\* C10: the records of two different combinations carry different artifact
\* names.
C10_ArtifactNamesDistinct ==
  pc = "built" =>
    \A i, j \in 1..emitted :
      combinations.items[i] # combinations.items[j] => ArtifactLine(i) # ArtifactLine(j)

====
